---------------------------- MODULE Spec2Model ----------------------------
(***************************************************************************)
(* jiwer: process_words / process_characters (src/src/jiwer/process.py),   *)
(* the default transform pipelines (src/jiwer/transformations.py,          *)
(* src/src/jiwer/transforms.py) and the Levenshtein opcodes routine that   *)
(* process_words calls for every sentence pair.                            *)
(*                                                                         *)
(* A string is a sequence of one-character strings; a token is a string.   *)
(* Floats are modelled as exact rationals [num, den] (den > 0).            *)
(***************************************************************************)
EXTENDS Integers, Sequences, FiniteSets, TLC

\* ------------------------------------------------------------------ bounds
\* longest raw input string given as a single str argument
MaxChars == 2
\* longest token list a custom transform returns for a one-sentence corpus
MaxTokens == 3
\* most sentences in a list argument / in a multi-sentence transform output
MaxSentences == 2
\* most calls one caller makes one after another
MaxCalls == 3

\* characters raw strings are made of (" " is the word delimiter)
Chars == {" ", "x", "y"}
\* raw sentences that list arguments are made of: "", "x", "x y"
ShortStrings == {<<>>, <<"x">>, <<"x", " ", "y">>}
\* tokens custom transforms return
Tokens == {<<"x">>, <<"y">>, <<"z">>}
\* sentences of multi-sentence custom transform outputs
ShortSentences == {<<>>, <<<<"x">>>>, <<<<"x">>, <<"y">>>>}

\* sentences with an empty-string token, as a transform that does not
\* remove empty strings returns them: [""], ["", "x"], ["x", ""]; and ["x"]
EmptyTokenSentences ==
    {<< <<>> >>, << <<>>, <<"x">> >>, << <<"x">>, <<>> >>, << <<"x">> >>}

SeqsUpTo(S, n) == UNION {[1..k -> S] : k \in 0..n}

\* ------------------------------------------------------- sequence helpers
RECURSIVE SumSeq(_)
SumSeq(s) == IF s = <<>> THEN 0 ELSE Head(s) + SumSeq(Tail(s))

RECURSIVE Concat(_)
Concat(ss) == IF ss = <<>> THEN <<>> ELSE Head(ss) \o Concat(Tail(ss))

Min2(a, b) == IF a <= b THEN a ELSE b

\* ---------------------------------------------------------------- transforms
IsSpace(c) == c = " "

\* RemoveMultipleSpaces.process_string: re.sub(r"\s\s+", " ", s)
RECURSIVE RemoveMultipleSpaces(_)
RemoveMultipleSpaces(s) ==
    IF Len(s) < 2 THEN s
    ELSE IF IsSpace(s[1]) /\ IsSpace(s[2])
         THEN LET rest == RemoveMultipleSpaces(Tail(s))
              IN  \* the whole run of spaces collapses to one
                  rest
         ELSE <<Head(s)>> \o RemoveMultipleSpaces(Tail(s))

\* str.strip(), left part
RECURSIVE LStrip(_)
LStrip(s) == IF s # <<>> /\ IsSpace(Head(s)) THEN LStrip(Tail(s)) ELSE s

\* str.strip(), right part
RECURSIVE RStrip(_)
RStrip(s) ==
    IF s # <<>> /\ IsSpace(s[Len(s)]) THEN RStrip(SubSeq(s, 1, Len(s) - 1)) ELSE s

\* Strip.process_string: s.strip()
Strip(s) == RStrip(LStrip(s))

\* str.split(" "): the pieces between single delimiters, empty pieces kept
RECURSIVE SplitOn(_, _)
SplitOn(s, cur) ==
    IF s = <<>> THEN <<cur>>
    ELSE IF IsSpace(Head(s)) THEN <<cur>> \o SplitOn(Tail(s), <<>>)
         ELSE SplitOn(Tail(s), Append(cur, Head(s)))

\* ReduceToListOfListOfWords.process_string (inner list):
\* [w for w in s.split(" ") if len(w) >= 1]
ListOfWords(s) == SelectSeq(SplitOn(s, <<>>), LAMBDA w : Len(w) >= 1)

\* ReduceToListOfListOfWords.process_list
ReduceToListOfListOfWords(inp) ==
    IF Len(inp) = 0 THEN << <<>> >>
    ELSE [i \in 1..Len(inp) |-> ListOfWords(inp[i])]

\* ReduceToListOfListOfChars.process_list: every character is a token
ReduceToListOfListOfChars(inp) ==
    IF Len(inp) = 0 THEN << <<>> >>
    ELSE [i \in 1..Len(inp) |-> [k \in 1..Len(inp[i]) |-> <<inp[i][k]>>]]

\* " ".join(list of strings)
RECURSIVE JoinWithSpace(_)
JoinWithSpace(ss) ==
    IF ss = <<>> THEN <<>>
    ELSE IF Len(ss) = 1 THEN ss[1]
         ELSE ss[1] \o <<" ">> \o JoinWithSpace(Tail(ss))

\* mutant: only the first non-empty sentence is kept
ReduceToSingleSentenceKeepFirst(inp) ==
    LET filtered_inp == SelectSeq(inp, LAMBDA i : Len(i) >= 1)
    IN  IF Len(filtered_inp) = 0 THEN <<>> ELSE <<filtered_inp[1]>>

\* ReduceToSingleSentence.process_list
ReduceToSingleSentence(inp) ==
    LET filtered_inp == SelectSeq(inp, LAMBDA i : Len(i) >= 1)
    IN  IF Len(filtered_inp) = 0 THEN <<>> ELSE <<JoinWithSpace(filtered_inp)>>

\* RemoveMultipleSpaces.process_list
RemoveMultipleSpacesList(inp) ==
    [i \in 1..Len(inp) |-> RemoveMultipleSpaces(inp[i])]

\* Strip on a list (AbstractTransform.process_list)
StripList(inp) == [i \in 1..Len(inp) |-> Strip(inp[i])]

\* Compose.__call__ for the pipelines of transformations.py, on a list;
\* a custom transform returns its own output whatever the input
ApplyPipeline(transform, inp) ==
    CASE transform.kind = "wer_default" ->
            ReduceToListOfListOfWords(StripList(RemoveMultipleSpacesList(inp)))
      [] transform.kind = "wer_contiguous" ->
            ReduceToListOfListOfWords(
                ReduceToSingleSentence(StripList(RemoveMultipleSpacesList(inp))))
      [] transform.kind = "cer_default" ->
            ReduceToListOfListOfChars(StripList(inp))
      [] transform.kind = "custom" -> transform.out

\* ------------------------------------------------------- vocabulary mapper
\* the keys of the defaultdict in first-seen order; a key's id is its
\* position (from 0), because default_factory is the dict's own __len__
RECURSIVE AddWords(_, _)
AddWords(vocab, words) ==
    IF words = <<>> THEN vocab
    ELSE IF \E i \in 1..Len(vocab) : vocab[i] = Head(words)
         THEN AddWords(vocab, Tail(words))
         ELSE AddWords(Append(vocab, Head(words)), Tail(words))

\* mutant: every word gets the same id
WordIdNotUnique(vocab, w) == 0

\* mutant: the id is kept in a fixed width and wraps around
WordIdFixedWidth(vocab, w) ==
    ((CHOOSE i \in 1..Len(vocab) : vocab[i] = w) - 1) % 4

WordId(vocab, w) == (CHOOSE i \in 1..Len(vocab) : vocab[i] = w) - 1

\* mutant: the id of a word is its length
EncodeSentencesByLength(vocab, sentences) ==
    [i \in 1..Len(sentences) |->
        [k \in 1..Len(sentences[i]) |-> Len(sentences[i][k])]]

EncodeSentences(vocab, sentences) ==
    [i \in 1..Len(sentences) |->
        [k \in 1..Len(sentences[i]) |-> WordId(vocab, sentences[i][k])]]

\* _word2int: reference sentences are looked up first, then the hypothesis
Word2Int(reference_, hypothesis_) ==
    LET vocab == AddWords(<<>>, Concat(reference_) \o Concat(hypothesis_))
    IN  [ref_ints |-> EncodeSentences(vocab, reference_),
         hyp_ints |-> EncodeSentences(vocab, hypothesis_)]

\* ------------------------------------------------------------------ aligner
\* rapidfuzz.distance.Levenshtein.opcodes(s1, s2) as process_words uses it:
\* the common prefix and suffix are cut off, the Levenshtein matrix of the
\* rest is computed, the edit operations are recovered walking back from
\* the last cell, and consecutive operations are grouped into opcodes.

\* mutant: the ids are compared by order, not for equality
RECURSIVE CommonPrefixLenOrdered(_, _)
CommonPrefixLenOrdered(s1, s2) ==
    IF s1 # <<>> /\ s2 # <<>> /\ Head(s1) <= Head(s2)
    THEN 1 + CommonPrefixLenOrdered(Tail(s1), Tail(s2))
    ELSE 0

RECURSIVE CommonPrefixLen(_, _)
CommonPrefixLen(s1, s2) ==
    IF s1 # <<>> /\ s2 # <<>> /\ Head(s1) = Head(s2)
    THEN 1 + CommonPrefixLen(Tail(s1), Tail(s2))
    ELSE 0

RECURSIVE CommonSuffixLen(_, _)
CommonSuffixLen(s1, s2) ==
    IF s1 # <<>> /\ s2 # <<>> /\ s1[Len(s1)] = s2[Len(s2)]
    THEN 1 + CommonSuffixLen(SubSeq(s1, 1, Len(s1) - 1), SubSeq(s2, 1, Len(s2) - 1))
    ELSE 0

\* one row of the matrix from the row above it: row[j+1] = D[i][j]
RECURSIVE LevRow(_, _, _, _)
LevRow(prev, ch, s2, row) ==
    LET j == Len(row)
    IN  IF j > Len(s2) THEN row
        ELSE LevRow(prev, ch, s2,
                 Append(row,
                     IF ch = s2[j]
                     THEN prev[j]
                     ELSE 1 + Min2(prev[j], Min2(row[j], prev[j + 1]))))

\* the matrix as a sequence of rows: LevMatrix(s1, s2)[i+1][j+1] = D[i][j],
\* the distance between the first i items of s1 and the first j of s2
RECURSIVE LevRows(_, _, _)
LevRows(s1, s2, rows) ==
    LET i == Len(rows)
    IN  IF i > Len(s1) THEN rows
        ELSE LevRows(s1, s2, Append(rows, LevRow(rows[i], s1[i], s2, <<i>>)))

LevMatrix(s1, s2) == LevRows(s1, s2, << [j \in 1..(Len(s2) + 1) |-> j - 1] >>)

Editop(tag, src_pos, dest_pos) ==
    [tag |-> tag, src_pos |-> src_pos, dest_pos |-> dest_pos]

\* mutant: the walk takes the diagonal whenever it keeps the cost, then an
\* insertion, then a deletion
RECURSIVE RecoverAlignmentDiagonalFirst(_, _, _, _, _, _)
RecoverAlignmentDiagonalFirst(D, s1, s2, col, row, prefix_len) ==
    IF col = 0 /\ row = 0 THEN <<>>
    ELSE IF col # 0 /\ row # 0
            /\ D[col + 1][row + 1]
                  = D[col][row] + (IF s1[col] = s2[row] THEN 0 ELSE 1)
         THEN IF s1[col] = s2[row]
              THEN RecoverAlignmentDiagonalFirst(D, s1, s2, col - 1, row - 1, prefix_len)
              ELSE Append(RecoverAlignmentDiagonalFirst(D, s1, s2, col - 1, row - 1,
                                                        prefix_len),
                          Editop("replace", col - 1 + prefix_len, row - 1 + prefix_len))
         ELSE IF row # 0 /\ D[col + 1][row + 1] = D[col + 1][row] + 1
              THEN Append(RecoverAlignmentDiagonalFirst(D, s1, s2, col, row - 1,
                                                        prefix_len),
                          Editop("insert", col + prefix_len, row - 1 + prefix_len))
              ELSE Append(RecoverAlignmentDiagonalFirst(D, s1, s2, col - 1, row,
                                                        prefix_len),
                          Editop("delete", col - 1 + prefix_len, row + prefix_len))

\* the walk back from cell (col, row) of the matrix D of s1 (columns) and s2
\* (rows); the operations come out in forward order.  A deletion is taken
\* whenever the cell is one more than its neighbour at col-1, then an
\* insertion when the cell at row-1 is one less than its neighbour at
\* col-1, and the diagonal otherwise (a replace when the items differ).
RECURSIVE RecoverAlignment(_, _, _, _, _, _)
RecoverAlignment(D, s1, s2, col, row, prefix_len) ==
    IF row # 0 /\ col # 0
    THEN IF D[col + 1][row + 1] - D[col][row + 1] = 1
         THEN Append(RecoverAlignment(D, s1, s2, col - 1, row, prefix_len),
                     Editop("delete", col - 1 + prefix_len, row + prefix_len))
         ELSE IF row - 1 # 0 /\ D[col + 1][row] - D[col][row] = -1
              THEN Append(RecoverAlignment(D, s1, s2, col, row - 1, prefix_len),
                          Editop("insert", col + prefix_len, row - 1 + prefix_len))
              ELSE IF s1[col] # s2[row]
                   THEN Append(RecoverAlignment(D, s1, s2, col - 1, row - 1, prefix_len),
                               Editop("replace", col - 1 + prefix_len, row - 1 + prefix_len))
                   ELSE RecoverAlignment(D, s1, s2, col - 1, row - 1, prefix_len)
    ELSE IF col # 0
         THEN Append(RecoverAlignment(D, s1, s2, col - 1, row, prefix_len),
                     Editop("delete", col - 1 + prefix_len, row + prefix_len))
         ELSE IF row # 0
              THEN Append(RecoverAlignment(D, s1, s2, col, row - 1, prefix_len),
                          Editop("insert", col + prefix_len, row - 1 + prefix_len))
              ELSE <<>>

\* Levenshtein.editops(s1, s2)
Editops(s1, s2) ==
    LET prefix_len == CommonPrefixLen(s1, s2)
        r1 == SubSeq(s1, prefix_len + 1, Len(s1))
        r2 == SubSeq(s2, prefix_len + 1, Len(s2))
        suffix_len == CommonSuffixLen(r1, r2)
        t1 == SubSeq(r1, 1, Len(r1) - suffix_len)
        t2 == SubSeq(r2, 1, Len(r2) - suffix_len)
        D  == LevMatrix(t1, t2)
    IN  RecoverAlignment(D, t1, t2, Len(t1), Len(t2), prefix_len)

Opcode(tag, i1, i2, j1, j2) ==
    [tag |-> tag, src_start |-> i1, src_end |-> i2, dest_start |-> j1, dest_end |-> j2]

\* mutant: like operations that follow one another are not grouped
RunLenSingle(ops, i, tag, src_pos, dest_pos) ==
    IF i <= Len(ops) /\ ops[i].tag = tag THEN 1 ELSE 0

\* how many operations from position i on have the tag of operation i and
\* follow one another without a gap, starting at (src_pos, dest_pos)
RECURSIVE RunLen(_, _, _, _, _)
RunLen(ops, i, tag, src_pos, dest_pos) ==
    IF i <= Len(ops) /\ ops[i].tag = tag
       /\ ops[i].src_pos = src_pos /\ ops[i].dest_pos = dest_pos
    THEN 1 + RunLen(ops, i + 1, tag,
                    IF tag = "insert" THEN src_pos ELSE src_pos + 1,
                    IF tag = "delete" THEN dest_pos ELSE dest_pos + 1)
    ELSE 0

\* Editops.as_opcodes: an equal block fills every gap before an operation,
\* a run of like operations becomes one block, an equal block fills the end
RECURSIVE AsOpcodes(_, _, _, _, _, _)
AsOpcodes(ops, i, src_pos, dest_pos, src_len, dest_len) ==
    IF i > Len(ops)
    THEN IF src_pos < src_len \/ dest_pos < dest_len
         THEN <<Opcode("equal", src_pos, src_len, dest_pos, dest_len)>>
         ELSE <<>>
    ELSE IF src_pos < ops[i].src_pos \/ dest_pos < ops[i].dest_pos
         THEN <<Opcode("equal", src_pos, ops[i].src_pos, dest_pos, ops[i].dest_pos)>>
              \o AsOpcodes(ops, i, ops[i].src_pos, ops[i].dest_pos, src_len, dest_len)
         ELSE LET tag == ops[i].tag
                  n   == RunLen(ops, i, tag, src_pos, dest_pos)
                  src_next  == IF tag = "insert" THEN src_pos ELSE src_pos + n
                  dest_next == IF tag = "delete" THEN dest_pos ELSE dest_pos + n
              IN  <<Opcode(tag, src_pos, src_next, dest_pos, dest_next)>>
                  \o AsOpcodes(ops, i + n, src_next, dest_next, src_len, dest_len)

\* Levenshtein.opcodes(s1, s2)
LevenshteinOpcodes(s1, s2) ==
    AsOpcodes(Editops(s1, s2), 1, 0, 0, Len(s1), Len(s2))

\* ------------------------------------------------------------- data types
\* AlignmentChunk.__post_init__ accepts the chunk: a known tag, start <= end
ChunkAccepted(op) ==
    /\ op.tag \in {"replace", "insert", "delete", "equal", "substitute"}
    /\ op.src_start <= op.src_end
    /\ op.dest_start <= op.dest_end

\* mutant: the hypothesis start index is taken from the reference side
AlignmentChunkHypFromRef(op) ==
    [type |-> IF op.tag = "replace" THEN "substitute" ELSE op.tag,
     ref_start_idx |-> op.src_start, ref_end_idx |-> op.src_end,
     hyp_start_idx |-> op.src_start, hyp_end_idx |-> op.dest_end]

\* mutant: the tag of the aligner is stored as it is
AlignmentChunkKeepsTag(op) ==
    [type |-> op.tag,
     ref_start_idx |-> op.src_start, ref_end_idx |-> op.src_end,
     hyp_start_idx |-> op.dest_start, hyp_end_idx |-> op.dest_end]

\* AlignmentChunk(type=tag, ref_start_idx=i1, ...): "replace" is stored as
\* "substitute"
AlignmentChunk(op) ==
    [type |-> IF op.tag = "replace" THEN "substitute" ELSE op.tag,
     ref_start_idx |-> op.src_start, ref_end_idx |-> op.src_end,
     hyp_start_idx |-> op.dest_start, hyp_end_idx |-> op.dest_end]

\* mutant: insertions are counted over the reference span
OpCountInsertBySrc(op, tag) ==
    IF op.tag # tag THEN 0 ELSE op.src_end - op.src_start

\* the update of one counter for one opcode in the loop over the opcodes
OpCount(op, tag) ==
    IF op.tag # tag THEN 0
    ELSE IF tag = "insert" THEN op.dest_end - op.dest_start
         ELSE op.src_end - op.src_start

\* mutant: a counter counts the opcodes with its tag, not their lengths
SentenceCountOpcodes(opcodes, tag) ==
    SumSeq([k \in 1..Len(opcodes) |-> IF opcodes[k].tag = tag THEN 1 ELSE 0])

\* a counter after the loop over the opcodes of one sentence pair
SentenceCount(opcodes, tag) ==
    SumSeq([k \in 1..Len(opcodes) |-> OpCount(opcodes[k], tag)])

\* mutant: empty inner lists are never rejected
IsListOfListOfStringsNoEmptyTest(x, require_non_empty_lists) == TRUE

\* _is_list_of_list_of_strings; every model value is a list of lists of
\* strings, so only the emptiness test can fail
IsListOfListOfStrings(x, require_non_empty_lists) ==
    \A i \in 1..Len(x) : ~(require_non_empty_lists /\ Len(x[i]) = 0)

\* mutant: one chunk per edit operation, runs are not merged
SentenceChunksPerOperation(opcodes) ==
    Concat([k \in 1..Len(opcodes) |->
        LET op == opcodes[k]
            n  == IF op.tag = "insert" THEN op.dest_end - op.dest_start
                  ELSE op.src_end - op.src_start
        IN  [d \in 1..n |->
                [type |-> IF op.tag = "replace" THEN "substitute" ELSE op.tag,
                 ref_start_idx |-> IF op.tag = "insert" THEN op.src_start
                                   ELSE op.src_start + d - 1,
                 ref_end_idx |-> IF op.tag = "insert" THEN op.src_end
                                 ELSE op.src_start + d,
                 hyp_start_idx |-> IF op.tag = "delete" THEN op.dest_start
                                   ELSE op.dest_start + d - 1,
                 hyp_end_idx |-> IF op.tag = "delete" THEN op.dest_end
                                 ELSE op.dest_start + d]]])

\* the AlignmentChunk list of one sentence pair, one chunk per opcode
SentenceChunks(opcodes) ==
    [k \in 1..Len(opcodes) |-> AlignmentChunk(opcodes[k])]

\* mutant: the hypotheses are taken in reverse order
ZipPairReversed(ref_ints, hyp_ints, i) ==
    [reference_sentence |-> ref_ints[i],
     hypothesis_sentence |-> hyp_ints[Len(hyp_ints) + 1 - i]]

\* mutant: every reference is aligned with the first hypothesis
ZipPairFirstHypothesis(ref_ints, hyp_ints, i) ==
    [reference_sentence |-> ref_ints[i], hypothesis_sentence |-> hyp_ints[1]]

\* the i-th item of zip(ref_as_ints, hyp_as_ints)
ZipPair(ref_ints, hyp_ints, i) ==
    [reference_sentence |-> ref_ints[i], hypothesis_sentence |-> hyp_ints[i]]

\* mutant: only the first reference string is tested
HasEmptyStringFirstOnly(reference_) ==
    Len(reference_) >= 1 /\ Len(reference_[1]) = 0

\* any(len(t) == 0 for t in reference)
HasEmptyString(reference_) ==
    \E i \in 1..Len(reference_) : Len(reference_[i]) = 0

\* mutant: only a longer reference list is rejected
LengthsDifferIfLonger(ref_transformed_, hyp_transformed_) ==
    Len(ref_transformed_) > Len(hyp_transformed_)

\* len(ref_transformed) != len(hyp_transformed)
LengthsDiffer(ref_transformed_, hyp_transformed_) ==
    Len(ref_transformed_) # Len(hyp_transformed_)

\* a float as the exact quotient num / den
Frac(n, d) == [num |-> n, den |-> d]

\* wer = float(S + D + I) / float(H + S + D)
\* mutant: the error count is divided by the hypothesis token count
WerOverHypothesis(S, D, I, H) == Frac(S + D + I, H + S + I)

Wer(S, D, I, H) == Frac(S + D + I, H + S + D)

\* mutant: the insertions are left out of the denominator
MerWithoutInsertions(S, D, I, H) == Frac(S + D + I, H + S + D)

\* mer = float(S + D + I) / float(H + S + D + I)
Mer(S, D, I, H) == Frac(S + D + I, H + S + D + I)

\* mutant: the guard on the hypothesis word count is missing
WipNoGuard(H, num_rf_words_, num_hp_words_) ==
    Frac(H * H, num_rf_words_ * num_hp_words_)

\* mutant: the hits are divided once only
WipSingleRatio(H, num_rf_words_, num_hp_words_) ==
    IF num_hp_words_ >= 1
    THEN Frac(H, num_rf_words_ * num_hp_words_)
    ELSE Frac(0, 1)

\* wip = (float(H) / num_rf_words) * (float(H) / num_hp_words)
\*       if num_hp_words >= 1 else 0
Wip(H, num_rf_words_, num_hp_words_) ==
    IF num_hp_words_ >= 1
    THEN Frac(H * H, num_rf_words_ * num_hp_words_)
    ELSE Frac(0, 1)

\* mutant: the subtraction is the wrong way round
WilReversed(wip) == Frac(wip.num - wip.den, wip.den)

\* wil = 1 - wip
Wil(wip) == Frac(wip.den - wip.num, wip.den)

NoResult == [kind |-> "none"]

\* ------------------------------------------------------------------- state
VARIABLES
    call,                \* the entry point and its arguments, as called
    pc,                  \* position in process_words
    reference,           \* local: the reference argument, a list once wrapped
    hypothesis,          \* local: the hypothesis argument
    reference_transform, \* argument
    hypothesis_transform,\* argument
    ref_transformed, hyp_transformed,
    ref_as_ints, hyp_as_ints,
    num_hits, num_substitutions, num_deletions, num_insertions,
    num_rf_words, num_hp_words,
    alignments,
    idx,                 \* the sentence pair the loop is at (from 1)
    result,              \* the returned object, NoResult before and on error
    error,               \* the exception raised, "none" otherwise
    history              \* the caller's earlier calls with their outcomes

vars == <<call, pc, reference, hypothesis, reference_transform,
          hypothesis_transform, ref_transformed, hyp_transformed,
          ref_as_ints, hyp_as_ints, num_hits, num_substitutions,
          num_deletions, num_insertions, num_rf_words, num_hp_words,
          alignments, idx, result, error, history>>

locals == <<ref_transformed, hyp_transformed, ref_as_ints, hyp_as_ints>>
counters == <<num_hits, num_substitutions, num_deletions, num_insertions,
              num_rf_words, num_hp_words, alignments, idx>>
args == <<call, reference_transform, hypothesis_transform>>

\* ------------------------------------------------------------------ inputs
StrArg(s) == [isStr |-> TRUE, val |-> s]
ListArg(l) == [isStr |-> FALSE, val |-> l]

\* raw arguments given to the pipelines of transformations.py
RawArgs ==
    {StrArg(s) : s \in SeqsUpTo(Chars, MaxChars)}
    \cup {ListArg(l) : l \in SeqsUpTo(ShortStrings, MaxSentences)}

\* what a caller's own transforms may return for the reference and the
\* hypothesis: one sentence of tokens each, or a list (possibly empty) of
\* short sentences each
CustomOutputs ==
    {<<<<r>>, <<h>>>> : r \in SeqsUpTo(Tokens, MaxTokens),
                        h \in SeqsUpTo(Tokens, MaxTokens)}
    \cup (SeqsUpTo(ShortSentences, MaxSentences)
          \X SeqsUpTo(ShortSentences, MaxSentences))
    \cup {<<<<r>>, <<h>>>> : r \in EmptyTokenSentences, h \in EmptyTokenSentences}

\* the strings of test_permutations_invariance
Str_i == <<"i">>
Str_i_am == <<"i", " ", "a", "m">>
Str_i_good == <<"i", " ", "g", "o", "o", "d">>
Str_am_i_good == <<"a", "m", " ", "i", " ", "g", "o", "o", "d">>

\* the calls of tests/test_measures.py test_known_values and
\* test_permutations_invariance and of tests/test_alignment.py
\* test_multiple_sentences, as <<reference, hypothesis>>
KnownCases ==
    {<<StrArg(<<"x">>), StrArg(<<"x", " ", "x", " ", "y", " ", "y">>)>>,
     <<StrArg(<<"x", " ", "y", " ", "x">>), StrArg(<<"x", " ", "z">>)>>,
     <<ListArg(<< <<"o", "n", "e">>, <<"t", "w", "o">> >>),
       ListArg(<< <<"1">>, <<"2">> >>)>>,
     <<ListArg(<<Str_i, Str_am_i_good>>), ListArg(<<Str_i_am, Str_i_good>>)>>,
     <<ListArg(<<Str_am_i_good, Str_i>>), ListArg(<<Str_i_good, Str_i_am>>)>>}

\* the strings of test_different_sentence_length_unequaL_type
ContiguousReference1 ==
    <<"i", " ", "l", "i", "k", "e", " ", "m", "o", "n", "t", "h", "y", " ",
      "p", "y", "t", "h", "o", "n">>
ContiguousReference2 ==
    <<"w", "h", "a", "t", " ", "d", "o", " ", "y", "o", "u", " ", "m", "e",
      "a", "n", " ", "a", "f", "r", "i", "c", "a", "n", " ", "o", "r", " ",
      "e", "u", "r", "o", "p", "e", "a", "n", " ", "s", "w", "a", "l", "l",
      "o", "w">>
ContiguousHypothesis1 ==
    <<"i", " ", "l", "i", "k", "e">>
ContiguousHypothesis2 ==
    <<"p", "y", "t", "h", "o", "n">>
ContiguousHypothesis3 ==
    <<"w", "h", "a", "t", " ", "y", "o", "u", " ", "m", "e", "a", "n">>
ContiguousHypothesis4 ==
    <<"o", "r", " ", "s", "w", "a", "l", "l", "o", "w">>

\* the call of test_different_sentence_length_unequaL_type
ContiguousCases ==
    {<<ListArg(<<ContiguousReference1, ContiguousReference2>>),
       ListArg(<<ContiguousHypothesis1, ContiguousHypothesis2,
                 ContiguousHypothesis3, ContiguousHypothesis4>>)>>}

\* the strings of tests/test_alignment.py test_all_three and of the first
\* sentence pair of the visualize_alignment example
AllThreeReference ==
    <<"t", "h", "i", "s", " ", "i", "s", " ", "a", " ", "t", "e", "s", "t",
      " ", "o", "f", " ", "s", "k", "i", "l", "l">>
AllThreeHypothesis ==
    <<"t", "h", "i", "s", " ", "w", "a", "s", " ", "a", " ", "m", "e", "s",
      "s", "y", " ", "t", "e", "s", "t">>
ShortOneHere ==
    <<"s", "h", "o", "r", "t", " ", "o", "n", "e", " ", "h", "e", "r", "e">>
ShoeOrderOne ==
    <<"s", "h", "o", "e", " ", "o", "r", "d", "e", "r", " ", "o", "n", "e">>

QuiteLongerSentence ==
    <<"q", "u", "i", "t", "e", " ", "a", " ", "b", "i", "t", " ", "o", "f",
      " ", "l", "o", "n", "g", "e", "r", " ", "s", "e", "n", "t", "e", "n",
      "c", "e">>
QuiteLongestSentenceHere ==
    <<"q", "u", "i", "t", "e", " ", "b", "i", "t", " ", "o", "f", " ", "a",
      "n", " ", "e", "v", "e", "n", " ", "l", "o", "n", "g", "e", "s", "t",
      " ", "s", "e", "n", "t", "e", "n", "c", "e", " ", "h", "e", "r", "e">>

\* calls whose word alignment the tests and the documentation give
AlignmentCases ==
    {<<StrArg(AllThreeReference), StrArg(AllThreeHypothesis)>>,
     <<StrArg(ShortOneHere), StrArg(ShoeOrderOne)>>,
     <<ListArg(<<ShortOneHere, QuiteLongerSentence>>),
       ListArg(<<ShoeOrderOne, QuiteLongestSentenceHere>>)>>}

Calls ==
    {[entry |-> "process_words", reference |-> r, hypothesis |-> h,
      reference_transform |-> [kind |-> k], hypothesis_transform |-> [kind |-> k]] :
        r \in RawArgs, h \in RawArgs, k \in {"wer_default", "wer_contiguous"}}
    \cup
    {[entry |-> "process_characters", reference |-> r, hypothesis |-> h,
      reference_transform |-> [kind |-> "cer_default"],
      hypothesis_transform |-> [kind |-> "cer_default"]] :
        r \in RawArgs, h \in RawArgs}
    \cup
    {[entry |-> "process_words", reference |-> StrArg(<<"x">>),
      hypothesis |-> StrArg(<<"x">>),
      reference_transform |-> [kind |-> "custom", out |-> o[1]],
      hypothesis_transform |-> [kind |-> "custom", out |-> o[2]]] :
        o \in CustomOutputs}
    \cup
    {[entry |-> "process_words", reference |-> StrArg(<<>>),
      hypothesis |-> StrArg(<<"x">>),
      reference_transform |-> [kind |-> "custom", out |-> o[1]],
      hypothesis_transform |-> [kind |-> "custom", out |-> o[2]]] :
        o \in CustomOutputs}
    \cup
    {[entry |-> "process_words", reference |-> c[1], hypothesis |-> c[2],
      reference_transform |-> [kind |-> "wer_default"],
      hypothesis_transform |-> [kind |-> "wer_default"]] :
        c \in KnownCases \cup AlignmentCases}
    \cup
    {[entry |-> "process_characters", reference |-> c[1], hypothesis |-> c[2],
      reference_transform |-> [kind |-> "cer_default"],
      hypothesis_transform |-> [kind |-> "cer_default"]] : c \in KnownCases}
    \cup
    {[entry |-> "process_words", reference |-> c[1], hypothesis |-> c[2],
      reference_transform |-> [kind |-> "wer_contiguous"],
      hypothesis_transform |-> [kind |-> "wer_contiguous"]] : c \in ContiguousCases}

Init ==
    /\ \E c \in Calls :
        /\ call = [entry |-> c.entry, reference |-> c.reference,
                   hypothesis |-> c.hypothesis]
        /\ reference = c.reference
        /\ hypothesis = c.hypothesis
        /\ reference_transform = c.reference_transform
        /\ hypothesis_transform = c.hypothesis_transform
    /\ pc = "validate_input"
    /\ ref_transformed = <<>> /\ hyp_transformed = <<>>
    /\ ref_as_ints = <<>> /\ hyp_as_ints = <<>>
    /\ num_hits = 0 /\ num_substitutions = 0
    /\ num_deletions = 0 /\ num_insertions = 0
    /\ num_rf_words = 0 /\ num_hp_words = 0
    /\ alignments = <<>>
    /\ idx = 1
    /\ result = NoResult
    /\ error = "none"
    /\ history = <<>>

\* ----------------------------------------------------------------- actions
Raise(e) == pc' = "raised" /\ error' = e /\ result' = NoResult

Wrapped(arg) == IF arg.isStr THEN ListArg(<<arg.val>>) ELSE arg

\* process_words: wrap str arguments, reject empty reference strings
ValidateInput ==
    /\ pc = "validate_input"
    /\ reference' = Wrapped(reference)
    /\ hypothesis' = Wrapped(hypothesis)
    /\ IF HasEmptyString(reference'.val)
       THEN Raise("ValueError")
       ELSE pc' = "transform_ref" /\ UNCHANGED <<result, error>>
    /\ UNCHANGED <<args, history, locals, counters>>

\* _apply_transform(reference, reference_transform, is_reference=True)
ApplyReferenceTransform ==
    /\ pc = "transform_ref"
    /\ LET transformed_sentence == ApplyPipeline(reference_transform, reference.val)
       IN  IF ~IsListOfListOfStrings(transformed_sentence, TRUE)
           THEN Raise("ValueError") /\ UNCHANGED ref_transformed
           ELSE /\ ref_transformed' = transformed_sentence
                /\ pc' = "transform_hyp"
                /\ UNCHANGED <<result, error>>
    /\ UNCHANGED <<args, history, reference, hypothesis, hyp_transformed, ref_as_ints,
                   hyp_as_ints, counters>>

\* _apply_transform(hypothesis, hypothesis_transform, is_reference=False)
ApplyHypothesisTransform ==
    /\ pc = "transform_hyp"
    /\ LET transformed_sentence == ApplyPipeline(hypothesis_transform, hypothesis.val)
       IN  IF ~IsListOfListOfStrings(transformed_sentence, FALSE)
           THEN Raise("ValueError") /\ UNCHANGED hyp_transformed
           ELSE /\ hyp_transformed' = transformed_sentence
                /\ pc' = "check_lengths"
                /\ UNCHANGED <<result, error>>
    /\ UNCHANGED <<args, history, reference, hypothesis, ref_transformed, ref_as_ints,
                   hyp_as_ints, counters>>

\* the sentence counts must match
CheckLengths ==
    /\ pc = "check_lengths"
    /\ IF LengthsDiffer(ref_transformed, hyp_transformed)
       THEN Raise("ValueError")
       ELSE pc' = "word2int" /\ UNCHANGED <<result, error>>
    /\ UNCHANGED <<args, history, reference, hypothesis, locals, counters>>

\* ref_as_ints, hyp_as_ints = _word2int(ref_transformed, hyp_transformed)
MapWords ==
    /\ pc = "word2int"
    /\ LET m == Word2Int(ref_transformed, hyp_transformed)
       IN  ref_as_ints' = m.ref_ints /\ hyp_as_ints' = m.hyp_ints
    /\ pc' = "align"
    /\ UNCHANGED <<args, history, reference, hypothesis, ref_transformed,
                   hyp_transformed, counters, result, error>>

\* one iteration of the loop over zip(ref_as_ints, hyp_as_ints)
AlignSentence ==
    /\ pc = "align"
    /\ idx <= Min2(Len(ref_as_ints), Len(hyp_as_ints))
    /\ LET pair == ZipPair(ref_as_ints, hyp_as_ints, idx)
           reference_sentence == pair.reference_sentence
           hypothesis_sentence == pair.hypothesis_sentence
           opcodes == LevenshteinOpcodes(reference_sentence, hypothesis_sentence)
       IN  IF \E k \in 1..Len(opcodes) : ~ChunkAccepted(opcodes[k])
           THEN Raise("ValueError") /\ UNCHANGED counters
           ELSE /\ num_hits' = num_hits + SentenceCount(opcodes, "equal")
                /\ num_substitutions' =
                       num_substitutions + SentenceCount(opcodes, "replace")
                /\ num_deletions' = num_deletions + SentenceCount(opcodes, "delete")
                /\ num_insertions' = num_insertions + SentenceCount(opcodes, "insert")
                /\ num_rf_words' = num_rf_words + Len(reference_sentence)
                /\ num_hp_words' = num_hp_words + Len(hypothesis_sentence)
                /\ alignments' = Append(alignments, SentenceChunks(opcodes))
                /\ idx' = idx + 1
                /\ UNCHANGED <<pc, result, error>>
    /\ UNCHANGED <<args, history, reference, hypothesis, locals>>

\* the measures and the WordOutput, once the loop has ended
ComputeMeasures ==
    /\ pc = "align"
    /\ idx > Min2(Len(ref_as_ints), Len(hyp_as_ints))
    /\ LET S == num_substitutions
           D == num_deletions
           I == num_insertions
           H == num_hits
           wer == Wer(S, D, I, H)
           mer == Mer(S, D, I, H)
           wip == Wip(H, num_rf_words, num_hp_words)
           wil == Wil(wip)
       IN  \* a division by zero raises
           IF wer.den = 0 \/ mer.den = 0 \/ wip.den = 0
           THEN Raise("ZeroDivisionError")
           ELSE /\ result' = [kind |-> "WordOutput",
                              references |-> ref_transformed,
                              hypotheses |-> hyp_transformed,
                              alignments |-> alignments,
                              wer |-> wer, mer |-> mer, wil |-> wil, wip |-> wip,
                              hits |-> num_hits,
                              substitutions |-> num_substitutions,
                              insertions |-> num_insertions,
                              deletions |-> num_deletions]
                /\ pc' = IF call.entry = "process_characters"
                         THEN "characters" ELSE "returned"
                /\ UNCHANGED error
    /\ UNCHANGED <<args, history, reference, hypothesis, locals, counters>>

\* mutant: cer is taken from the match error rate
CharacterOutputCerFromMer(word_output) ==
    [kind |-> "CharacterOutput",
     references |-> word_output.references,
     hypotheses |-> word_output.hypotheses,
     alignments |-> word_output.alignments,
     cer |-> word_output.mer,
     hits |-> word_output.hits,
     substitutions |-> word_output.substitutions,
     insertions |-> word_output.insertions,
     deletions |-> word_output.deletions]

\* CharacterOutput(references=result.references, ..., cer=result.wer, ...)
CharacterOutput(word_output) ==
    [kind |-> "CharacterOutput",
     references |-> word_output.references,
     hypotheses |-> word_output.hypotheses,
     alignments |-> word_output.alignments,
     cer |-> word_output.wer,
     hits |-> word_output.hits,
     substitutions |-> word_output.substitutions,
     insertions |-> word_output.insertions,
     deletions |-> word_output.deletions]

\* process_characters: the CharacterOutput built from process_words' result
ReturnCharacterOutput ==
    /\ pc = "characters"
    /\ result' = CharacterOutput(result)
    /\ pc' = "returned"
    /\ UNCHANGED <<args, history, reference, hypothesis, locals, counters, error>>

Next ==
    \/ ValidateInput
    \/ ApplyReferenceTransform
    \/ ApplyHypothesisTransform
    \/ CheckLengths
    \/ MapWords
    \/ AlignSentence
    \/ ComputeMeasures
    \/ ReturnCharacterOutput

Spec == Init /\ [][Next]_vars

\* ------------------------------------------------- several calls in a row
\* the calls of a caller that calls again and again
SessionCalls ==
    {[entry |-> "process_words",
      reference |-> ListArg(<< <<"x", " ", "y">> >>), hypothesis |-> ListArg(<< <<"x">> >>),
      reference_transform |-> [kind |-> "wer_default"],
      hypothesis_transform |-> [kind |-> "wer_default"]],
     [entry |-> "process_words",
      reference |-> StrArg(<<"y">>), hypothesis |-> ListArg(<< <<"x", " ", "y">> >>),
      reference_transform |-> [kind |-> "wer_default"],
      hypothesis_transform |-> [kind |-> "wer_default"]],
     [entry |-> "process_words",
      reference |-> ListArg(<< <<>> >>), hypothesis |-> ListArg(<< <<"x">> >>),
      reference_transform |-> [kind |-> "wer_default"],
      hypothesis_transform |-> [kind |-> "wer_default"]],
     [entry |-> "process_words",
      reference |-> ListArg(<< <<"x">>, <<"x", " ", "y">> >>),
      hypothesis |-> ListArg(<< <<"x">> >>),
      reference_transform |-> [kind |-> "wer_contiguous"],
      hypothesis_transform |-> [kind |-> "wer_contiguous"]],
     [entry |-> "process_characters",
      reference |-> ListArg(<< <<"x", " ", "y">> >>), hypothesis |-> ListArg(<< <<"x">> >>),
      reference_transform |-> [kind |-> "cer_default"],
      hypothesis_transform |-> [kind |-> "cer_default"]],
     [entry |-> "process_words",
      reference |-> StrArg(<<"x">>), hypothesis |-> StrArg(<<"x">>),
      reference_transform |-> [kind |-> "custom", out |-> <<>>],
      hypothesis_transform |-> [kind |-> "custom", out |-> <<>>]]}

\* mutant: the counts of the previous call are carried into the next one
LoopStartKeepsCounts(previous) == previous

\* the counters and the alignment list as process_words sets them before
\* its loop, whatever an earlier call left
LoopStart(previous) ==
    [num_hits |-> 0, num_substitutions |-> 0, num_deletions |-> 0,
     num_insertions |-> 0, num_rf_words |-> 0, num_hp_words |-> 0,
     alignments |-> <<>>]

\* the caller, once a call has returned or raised, calls again
CallAgain ==
    /\ pc \in {"returned", "raised"}
    /\ Len(history) < MaxCalls - 1
    /\ history' = Append(history,
                         [call |-> call,
                          reference_transform |-> reference_transform,
                          hypothesis_transform |-> hypothesis_transform,
                          result |-> result, error |-> error])
    /\ \E c \in SessionCalls :
          /\ call' = [entry |-> c.entry, reference |-> c.reference,
                      hypothesis |-> c.hypothesis]
          /\ reference' = c.reference
          /\ hypothesis' = c.hypothesis
          /\ reference_transform' = c.reference_transform
          /\ hypothesis_transform' = c.hypothesis_transform
    /\ pc' = "validate_input"
    /\ ref_transformed' = <<>> /\ hyp_transformed' = <<>>
    /\ ref_as_ints' = <<>> /\ hyp_as_ints' = <<>>
    /\ LET start == LoopStart([num_hits |-> num_hits,
                               num_substitutions |-> num_substitutions,
                               num_deletions |-> num_deletions,
                               num_insertions |-> num_insertions,
                               num_rf_words |-> num_rf_words,
                               num_hp_words |-> num_hp_words,
                               alignments |-> alignments])
       IN  /\ num_hits' = start.num_hits
           /\ num_substitutions' = start.num_substitutions
           /\ num_deletions' = start.num_deletions
           /\ num_insertions' = start.num_insertions
           /\ num_rf_words' = start.num_rf_words
           /\ num_hp_words' = start.num_hp_words
           /\ alignments' = start.alignments
    /\ idx' = 1
    /\ result' = NoResult
    /\ error' = "none"

InitCalls ==
    /\ Init
    /\ \E c \in SessionCalls :
          /\ call = [entry |-> c.entry, reference |-> c.reference,
                     hypothesis |-> c.hypothesis]
          /\ reference_transform = c.reference_transform
          /\ hypothesis_transform = c.hypothesis_transform

NextCalls == Next \/ CallAgain

SpecCalls == InitCalls /\ [][NextCalls]_vars

\* -------------------------------------------------------------- properties
Returned == pc = "returned"

FracEq(f, n, d) == f.den # 0 /\ f.num * d = n * f.den

RefSpan(c) == c.ref_end_idx - c.ref_start_idx
HypSpan(c) == c.hyp_end_idx - c.hyp_start_idx

\* the edit operations a chunk stands for
ChunkCost(c) ==
    IF c.type = "equal" THEN 0
    ELSE IF c.type = "insert" THEN HypSpan(c) ELSE RefSpan(c)

AlignmentCost(al) == SumSeq([k \in 1..Len(al) |-> ChunkCost(al[k])])

\* the unit-cost Levenshtein distance, by its defining recurrence
RECURSIVE Lev(_, _)
Lev(a, b) ==
    IF a = <<>> THEN Len(b)
    ELSE IF b = <<>> THEN Len(a)
    ELSE IF Head(a) = Head(b) THEN Lev(Tail(a), Tail(b))
    ELSE 1 + Min2(Lev(Tail(a), Tail(b)), Min2(Lev(a, Tail(b)), Lev(Tail(a), b)))

\* C1: for every sentence pair of a returned result, the substitutions,
\* deletions and insertions of its alignment add up to the Levenshtein
\* distance between the two token lists, and the reported totals
\* substitutions + deletions + insertions are the sum of these distances.
C1_CostIsLevenshtein ==
    Returned =>
        /\ \A k \in 1..Len(result.alignments) :
              AlignmentCost(result.alignments[k])
                  = Lev(result.references[k], result.hypotheses[k])
        /\ result.substitutions + result.deletions + result.insertions
              = SumSeq([k \in 1..Len(result.alignments) |->
                    Lev(result.references[k], result.hypotheses[k])])

\* a returned pair of distance 3 that needs all three kinds of operation
C1_Witness ==
    /\ Returned
    /\ result.substitutions >= 1 /\ result.deletions >= 1
    /\ result.insertions >= 1 /\ result.hits >= 1

\* the chunks of an alignment tile [0, n) on the reference side and [0, m)
\* on the hypothesis side, in list order
Partitions(al, n, m) ==
    IF al = <<>> THEN n = 0 /\ m = 0
    ELSE /\ al[1].ref_start_idx = 0 /\ al[1].hyp_start_idx = 0
         /\ \A i \in 1..(Len(al) - 1) :
               /\ al[i + 1].ref_start_idx = al[i].ref_end_idx
               /\ al[i + 1].hyp_start_idx = al[i].hyp_end_idx
         /\ al[Len(al)].ref_end_idx = n /\ al[Len(al)].hyp_end_idx = m

\* C2: in every alignment built so far, the reference ranges partition
\* [0, len(ref)) and the hypothesis ranges partition [0, len(hyp)) in list
\* order, so the span lengths sum to len(ref) and len(hyp).
C2_ChunksPartition ==
    \A k \in 1..Len(alignments) :
        /\ Partitions(alignments[k], Len(ref_transformed[k]), Len(hyp_transformed[k]))
        /\ SumSeq([i \in 1..Len(alignments[k]) |-> RefSpan(alignments[k][i])])
              = Len(ref_transformed[k])
        /\ SumSeq([i \in 1..Len(alignments[k]) |-> HypSpan(alignments[k][i])])
              = Len(hyp_transformed[k])

\* a returned alignment of at least three chunks
C2_Witness ==
    /\ Returned
    /\ \E k \in 1..Len(result.alignments) : Len(result.alignments[k]) >= 3

\* C3: every chunk has start <= end on both sides; an equal chunk has
\* spans of one length over pairwise identical tokens, a delete chunk an
\* empty hypothesis span, an insert chunk an empty reference span.
C3_ChunkShape ==
    \A k \in 1..Len(alignments) : \A i \in 1..Len(alignments[k]) :
        LET c == alignments[k][i]
        IN  /\ c.ref_start_idx <= c.ref_end_idx
            /\ c.hyp_start_idx <= c.hyp_end_idx
            /\ c.type = "equal" =>
                  /\ RefSpan(c) = HypSpan(c)
                  /\ \A d \in 1..RefSpan(c) :
                        ref_transformed[k][c.ref_start_idx + d]
                            = hyp_transformed[k][c.hyp_start_idx + d]
            /\ c.type = "delete" => HypSpan(c) = 0
            /\ c.type = "insert" => RefSpan(c) = 0

\* one alignment holding an equal, a delete and an insert chunk
C3_Witness ==
    /\ Returned
    /\ \E k \in 1..Len(result.alignments) :
          \A t \in {"equal", "delete", "insert"} :
              \E i \in 1..Len(result.alignments[k]) :
                  result.alignments[k][i].type = t

\* C4: no two consecutive chunks of an alignment have the same type and no
\* chunk is empty on both sides; the aligner gives no chunk at all for an
\* empty reference and an empty hypothesis.
C4_MaximalRuns ==
    /\ \A k \in 1..Len(alignments) :
          /\ \A i \in 1..(Len(alignments[k]) - 1) :
                alignments[k][i].type # alignments[k][i + 1].type
          /\ \A i \in 1..Len(alignments[k]) :
                RefSpan(alignments[k][i]) > 0 \/ HypSpan(alignments[k][i]) > 0
    /\ SentenceChunks(LevenshteinOpcodes(<<>>, <<>>)) = <<>>

\* an alignment in which a run of two like operations became one chunk
C4_Witness ==
    /\ Returned
    /\ \E k \in 1..Len(result.alignments) :
          /\ Len(result.alignments[k]) >= 2
          /\ \E i \in 1..Len(result.alignments[k]) :
                /\ result.alignments[k][i].type # "equal"
                /\ ChunkCost(result.alignments[k][i]) >= 2

\* the reference and the hypothesis as the transforms normalize them
NormalizedReference ==
    ApplyPipeline(reference_transform, Wrapped(call.reference).val)
NormalizedHypothesis ==
    ApplyPipeline(hypothesis_transform, Wrapped(call.hypothesis).val)

HasEmptySentence(sentences) == \E i \in 1..Len(sentences) : Len(sentences[i]) = 0

TotalLen(sentences) == SumSeq([k \in 1..Len(sentences) |-> Len(sentences[k])])

Chunk(type, i1, i2, j1, j2) ==
    [type |-> type, ref_start_idx |-> i1, ref_end_idx |-> i2,
     hyp_start_idx |-> j1, hyp_end_idx |-> j2]

\* C5: a sentence aligned with an identical sentence gives one equal chunk
\* over the whole sentence; a result whose hypotheses equal its references
\* has hits = the token count, no substitution, deletion or insertion,
\* wer = mer = wil = 0 and wip = 1 (cer = 0).
C5_Identity ==
    /\ \A k \in 1..Len(alignments) :
          ref_transformed[k] = hyp_transformed[k] =>
              alignments[k] = <<Chunk("equal", 0, Len(ref_transformed[k]),
                                      0, Len(ref_transformed[k]))>>
    /\ (Returned /\ result.references = result.hypotheses) =>
          /\ result.hits = TotalLen(result.references)
          /\ result.substitutions = 0
          /\ result.deletions = 0
          /\ result.insertions = 0
          /\ result.kind = "WordOutput" =>
                /\ FracEq(result.wer, 0, 1) /\ FracEq(result.mer, 0, 1)
                /\ FracEq(result.wil, 0, 1) /\ FracEq(result.wip, 1, 1)
          /\ result.kind = "CharacterOutput" => FracEq(result.cer, 0, 1)

\* a returned word result for a sentence of three tokens and itself
C5_Witness ==
    /\ Returned /\ result.kind = "WordOutput"
    /\ result.references = result.hypotheses
    /\ Len(result.references[1]) >= 3

\* the loop has run over a corpus of at least one pair whose hypothesis
\* sentences are all empty
AllHypothesesEmpty ==
    /\ pc \in {"align", "characters", "returned", "raised"}
    /\ Len(ref_transformed) >= 1
    /\ Len(hyp_transformed) = Len(ref_transformed)
    /\ \A k \in 1..Len(hyp_transformed) : hyp_transformed[k] = <<>>

\* C6: a reference sentence aligned with an empty hypothesis gives one
\* delete chunk over the whole reference; when all hypotheses are empty the
\* result has deletions = the reference token count, no hit, substitution
\* or insertion, wer = 1, mer = 1, wip = 0, wil = 1, and wip is the guard's
\* 0, not a quotient with denominator 0: no division by zero is raised.
C6_EmptyHypothesis ==
    /\ \A k \in 1..Len(alignments) :
          hyp_transformed[k] = <<>> =>
              alignments[k] = <<Chunk("delete", 0, Len(ref_transformed[k]), 0, 0)>>
    /\ AllHypothesesEmpty =>
          /\ error # "ZeroDivisionError"
          /\ Returned =>
                /\ result.deletions = TotalLen(result.references)
                /\ result.hits = 0
                /\ result.substitutions = 0
                /\ result.insertions = 0
                /\ result.kind = "WordOutput" =>
                      /\ FracEq(result.wer, 1, 1) /\ FracEq(result.mer, 1, 1)
                      /\ result.wip = Frac(0, 1) /\ FracEq(result.wil, 1, 1)
                /\ result.kind = "CharacterOutput" => FracEq(result.cer, 1, 1)

\* a returned word result for one reference of two tokens and hypothesis ""
C6_Witness ==
    /\ Returned /\ result.kind = "WordOutput"
    /\ AllHypothesesEmpty
    /\ Len(result.references) = 1
    /\ Len(result.references[1]) >= 2

Terminated == pc \in {"returned", "raised"}

\* C8 (as claimed): process_words("", h) with h of i >= 1 words returns
\* insertions = i, wer = i, mer = 1, wip = 0, wil = 1 and one insert chunk
\* over the hypothesis; process_characters("", h) returns cer = len(h).
C8_EmptyReferenceReturns ==
    (/\ Terminated
     /\ call.reference = StrArg(<<>>)
     /\ reference_transform.kind \in {"wer_default", "cer_default"}
     /\ Len(NormalizedHypothesis) = 1
     /\ Len(NormalizedHypothesis[1]) >= 1) =>
        LET i == Len(NormalizedHypothesis[1])
        IN  /\ Returned
            /\ result.insertions = i
            /\ result.alignments = << <<Chunk("insert", 0, 0, 0, i)>> >>
            /\ result.kind = "WordOutput" =>
                  /\ FracEq(result.wer, i, 1) /\ FracEq(result.mer, 1, 1)
                  /\ FracEq(result.wip, 0, 1) /\ FracEq(result.wil, 1, 1)
            /\ result.kind = "CharacterOutput" => FracEq(result.cer, i, 1)

\* the argument is "" or a list of one or more "" only
AllEmptyStrings(arg) ==
    /\ Len(Wrapped(arg).val) >= 1
    /\ \A i \in 1..Len(Wrapped(arg).val) : Wrapped(arg).val[i] = <<>>

\* C9 (as claimed): when every reference and every hypothesis string is
\* empty, the call returns hits = substitutions = deletions = insertions
\* = 0 with wer = 0, mer = 0, wip = 1, wil = 0 (cer = 0).
C9_AllEmptyReturnsZero ==
    (/\ Terminated
     /\ AllEmptyStrings(call.reference) /\ AllEmptyStrings(call.hypothesis)
     /\ Len(Wrapped(call.reference).val) = Len(Wrapped(call.hypothesis).val)
     /\ reference_transform.kind \in {"wer_default", "cer_default"}) =>
        /\ Returned
        /\ result.hits = 0 /\ result.substitutions = 0
        /\ result.deletions = 0 /\ result.insertions = 0
        /\ result.kind = "WordOutput" =>
              /\ FracEq(result.wer, 0, 1) /\ FracEq(result.mer, 0, 1)
              /\ FracEq(result.wip, 1, 1) /\ FracEq(result.wil, 0, 1)
        /\ result.kind = "CharacterOutput" => FracEq(result.cer, 0, 1)

HasEmptyToken(sentences) ==
    \E i \in 1..Len(sentences) : \E k \in 1..Len(sentences[i]) :
        sentences[i][k] = <<>>

\* C11 (as claimed): when a transform yields an empty-string token in a
\* reference or hypothesis sentence, the call gets no further than the
\* vocabulary mapping, which raises: no id sequence is produced for the
\* aligner and no result is returned.
C11_EmptyTokenRaises ==
    (HasEmptyToken(NormalizedReference) \/ HasEmptyToken(NormalizedHypothesis)) =>
        /\ result = NoResult
        /\ pc \in {"validate_input", "transform_ref", "transform_hyp",
                   "check_lengths", "word2int", "raised"}
        /\ ref_as_ints = <<>> /\ hyp_as_ints = <<>>

\* the token lists of the two examples of the measures' paper
RefX == << <<"x">> >>
HypXXYY == << <<"x">>, <<"x">>, <<"y">>, <<"y">> >>
RefXYX == << <<"x">>, <<"y">>, <<"x">> >>
HypXZ == << <<"x">>, <<"z">> >>

\* C12: a returned word result has, with H, S, D, I its counts and Nref,
\* Nhyp the token counts of its references and hypotheses,
\* wer = (S+D+I)/(H+S+D), mer = (S+D+I)/(H+S+D+I), wip = (H/Nref)*(H/Nhyp)
\* when Nhyp >= 1 and 0 otherwise, and wil = 1 - wip, as rationals; ref [x]
\* with hyp [x,x,y,y] gives wer 3, mer 3/4, wil 3/4, and ref [x,y,x] with
\* hyp [x,z] gives wer 2/3, mer 2/3, wil 5/6.
C12_MeasureFormulas ==
    (Returned /\ result.kind = "WordOutput") =>
        LET H == result.hits
            S == result.substitutions
            D == result.deletions
            I == result.insertions
            Nref == TotalLen(result.references)
            Nhyp == TotalLen(result.hypotheses)
        IN  /\ H + S + D # 0 /\ H + S + D + I # 0
            /\ FracEq(result.wer, S + D + I, H + S + D)
            /\ FracEq(result.mer, S + D + I, H + S + D + I)
            /\ IF Nhyp >= 1
               THEN Nref # 0 /\ FracEq(result.wip, H * H, Nref * Nhyp)
               ELSE FracEq(result.wip, 0, 1)
            /\ result.wil.den # 0
            /\ result.wil.num * result.wip.den + result.wip.num * result.wil.den
                  = result.wil.den * result.wip.den
            /\ (result.references = <<RefX>> /\ result.hypotheses = <<HypXXYY>>) =>
                  /\ FracEq(result.wer, 3, 1) /\ FracEq(result.mer, 3, 4)
                  /\ FracEq(result.wil, 3, 4)
            /\ (result.references = <<RefXYX>> /\ result.hypotheses = <<HypXZ>>) =>
                  /\ FracEq(result.wer, 2, 3) /\ FracEq(result.mer, 2, 3)
                  /\ FracEq(result.wil, 5, 6)

\* the first example has returned: more insertions than reference tokens
C12_Witness ==
    /\ Returned /\ result.kind = "WordOutput"
    /\ result.references = <<RefX>> /\ result.hypotheses = <<HypXXYY>>
    /\ result.insertions = 3

\* a <= b for rationals with positive denominators
FracLe(a, b) == a.num * b.den <= b.num * a.den

\* 0 <= f <= 1 for a rational with a positive denominator
FracInUnit(f) == f.den > 0 /\ 0 <= f.num /\ f.num <= f.den

\* C13: every returned result has wer >= 0, 0 <= wip <= 1, 0 <= wil <= 1
\* and mer <= wer (cer >= 0 for a character result).
C13_MeasureBounds ==
    Returned =>
        /\ result.kind = "WordOutput" =>
              /\ result.wer.den > 0 /\ result.wer.num >= 0
              /\ result.mer.den > 0
              /\ FracInUnit(result.wip)
              /\ FracInUnit(result.wil)
              /\ FracLe(result.mer, result.wer)
        /\ result.kind = "CharacterOutput" =>
              result.cer.den > 0 /\ result.cer.num >= 0

\* a returned word result with wer above 1, mer strictly below wer and wip,
\* wil strictly between 0 and 1
C13_Witness ==
    /\ Returned /\ result.kind = "WordOutput"
    /\ result.wer.num > result.wer.den
    /\ ~FracLe(result.wer, result.mer)
    /\ 0 < result.wip.num /\ result.wip.num < result.wip.den
    /\ 0 < result.wil.num /\ result.wil.num < result.wil.den

\* the alignment of one sentence pair taken as a corpus of its own
PairAlignment(r, h) ==
    LET m == Word2Int(<<r>>, <<h>>)
    IN  SentenceChunks(LevenshteinOpcodes(m.ref_ints[1], m.hyp_ints[1]))

\* the operations of one type in an alignment
TypeCount(al, type) ==
    SumSeq([i \in 1..Len(al) |->
        IF al[i].type # type THEN 0
        ELSE IF type = "insert" THEN HypSpan(al[i]) ELSE RefSpan(al[i])])

DefaultTransforms ==
    /\ reference_transform.kind \in {"wer_default", "cer_default"}
    /\ hypothesis_transform.kind = reference_transform.kind

\* C14: with the default transforms a returned result holds one alignment
\* per input sentence pair, in input order; alignment k is the alignment of
\* the normalized k-th reference with the normalized k-th hypothesis (with
\* no hypothesis when the hypothesis list is empty and n = 1), its
\* indices run over that pair's own token lists, and hits, substitutions,
\* deletions and insertions are the sums over the pairs; ["one","two"] with
\* ["1","2"] gives two alignments of one substitute chunk, substitutions =
\* 2 and hits = 0.
C14_PerSentencePairs ==
    (Returned /\ DefaultTransforms) =>
        LET refs == Wrapped(call.reference).val
            hyps == Wrapped(call.hypothesis).val
            n == Len(refs)
            al == result.alignments
            Total(type) == SumSeq([k \in 1..Len(al) |-> TypeCount(al[k], type)])
        IN  /\ Len(al) = n
            /\ Len(hyps) = n \/ (hyps = <<>> /\ n = 1)
            /\ Len(result.references) = n /\ Len(result.hypotheses) = n
            /\ \A k \in 1..n :
                  LET r == ApplyPipeline(reference_transform, <<refs[k]>>)[1]
                      h == IF hyps = <<>> THEN <<>>
                           ELSE ApplyPipeline(hypothesis_transform, <<hyps[k]>>)[1]
                  IN  /\ result.references[k] = r
                      /\ result.hypotheses[k] = h
                      /\ al[k] = PairAlignment(r, h)
                      /\ Partitions(al[k], Len(r), Len(h))
            /\ result.hits = Total("equal")
            /\ result.substitutions = Total("substitute")
            /\ result.deletions = Total("delete")
            /\ result.insertions = Total("insert")
            /\ (/\ refs = << <<"o", "n", "e">>, <<"t", "w", "o">> >>
                /\ hyps = << <<"1">>, <<"2">> >>
                /\ result.kind = "WordOutput") =>
                  /\ al = << <<Chunk("substitute", 0, 1, 0, 1)>>,
                             <<Chunk("substitute", 0, 1, 0, 1)>> >>
                  /\ result.substitutions = 2 /\ result.hits = 0

\* a returned word result for two different sentence pairs, the first
\* identical and the second not
C14_Witness ==
    /\ Returned /\ DefaultTransforms /\ result.kind = "WordOutput"
    /\ Len(result.alignments) = 2
    /\ result.references[1] = result.hypotheses[1]
    /\ result.references[2] # result.hypotheses[2]
    /\ result.references[1] # result.references[2]
    /\ result.hits >= 1 /\ result.deletions + result.insertions >= 1

IndexPermutations(n) ==
    {p \in [1..n -> 1..n] : \A i, j \in 1..n : i # j => p[i] # p[j]}

Permuted(l, p) == [i \in 1..Len(l) |-> l[p[i]]]

\* the counts for a corpus of token lists: the vocabulary is mapped over
\* the whole corpus, pair k is aligned, the counts are summed
CorpusTotals(refs, hyps) ==
    LET m == Word2Int(refs, hyps)
        T(tag) == SumSeq([k \in 1..Len(refs) |->
                     SentenceCount(LevenshteinOpcodes(m.ref_ints[k], m.hyp_ints[k]), tag)])
    IN  [hits |-> T("equal"), substitutions |-> T("replace"),
         deletions |-> T("delete"), insertions |-> T("insert"),
         num_rf_words |-> TotalLen(refs), num_hp_words |-> TotalLen(hyps)]

\* a result's counts and measures are those that the totals t give
SameAsTotals(res, t) ==
    LET wer == Wer(t.substitutions, t.deletions, t.insertions, t.hits)
        mer == Mer(t.substitutions, t.deletions, t.insertions, t.hits)
        wip == Wip(t.hits, t.num_rf_words, t.num_hp_words)
        wil == Wil(wip)
    IN  /\ res.hits = t.hits /\ res.substitutions = t.substitutions
        /\ res.deletions = t.deletions /\ res.insertions = t.insertions
        /\ wer.den # 0
        /\ res.kind = "WordOutput" =>
              /\ mer.den # 0 /\ wip.den # 0
              /\ FracEq(res.wer, wer.num, wer.den)
              /\ FracEq(res.mer, mer.num, mer.den)
              /\ FracEq(res.wip, wip.num, wip.den)
              /\ FracEq(res.wil, wil.num, wil.den)
        /\ res.kind = "CharacterOutput" => FracEq(res.cer, wer.num, wer.den)

\* C15: with the default transforms, when a call on n reference and n
\* hypothesis sentences returns, the call on the two lists permuted by any
\* one permutation passes the same checks and gives the same hits,
\* substitutions, deletions, insertions, wer, mer, wip and wil (cer);
\* ["i", "am i good"] with ["i am", "i good"] gives wer 1/2, mer 2/5, wil
\* 7/16 and cer 3/5 in both orders.
C15_PermutationInvariance ==
    (/\ Returned /\ DefaultTransforms
     /\ Len(Wrapped(call.reference).val) = Len(Wrapped(call.hypothesis).val)) =>
        LET refs == Wrapped(call.reference).val
            hyps == Wrapped(call.hypothesis).val
        IN  /\ \A p \in IndexPermutations(Len(refs)) :
                  LET pr == ApplyPipeline(reference_transform, Permuted(refs, p))
                      ph == ApplyPipeline(hypothesis_transform, Permuted(hyps, p))
                  IN  /\ ~HasEmptyString(Permuted(refs, p))
                      /\ IsListOfListOfStrings(pr, TRUE)
                      /\ ~LengthsDiffer(pr, ph)
                      /\ SameAsTotals(result, CorpusTotals(pr, ph))
            /\ (\/ (refs = <<Str_i, Str_am_i_good>> /\ hyps = <<Str_i_am, Str_i_good>>)
                \/ (refs = <<Str_am_i_good, Str_i>> /\ hyps = <<Str_i_good, Str_i_am>>)) =>
                  /\ result.kind = "WordOutput" =>
                        /\ FracEq(result.wer, 1, 2) /\ FracEq(result.mer, 2, 5)
                        /\ FracEq(result.wil, 7, 16)
                  /\ result.kind = "CharacterOutput" => FracEq(result.cer, 3, 5)

\* a returned word result for two sentence pairs with different counts:
\* one pair has an insertion only, the other a deletion only
C15_Witness ==
    /\ Returned /\ DefaultTransforms /\ result.kind = "WordOutput"
    /\ Len(result.alignments) = 2
    /\ result.references[1] # result.references[2]
    /\ \E k \in 1..2 :
          /\ TypeCount(result.alignments[k], "insert") >= 1
          /\ TypeCount(result.alignments[k], "delete") = 0
          /\ TypeCount(result.alignments[3 - k], "delete") >= 1
          /\ TypeCount(result.alignments[3 - k], "insert") = 0

ContiguousTransforms ==
    /\ reference_transform.kind = "wer_contiguous"
    /\ hypothesis_transform.kind = "wer_contiguous"

\* C16: with wer_contiguous on both sides the numbers of reference and
\* hypothesis sentences never make the call fail (it raises only for an
\* empty reference), and a returned result has the counts and measures of
\* the call on the one reference string and the one hypothesis string made
\* by joining the sentences in order.
C16_ContiguousConcatenation ==
    ContiguousTransforms =>
        LET refs == Wrapped(call.reference).val
            hyps == Wrapped(call.hypothesis).val
            joined_ref == ApplyPipeline(reference_transform, <<JoinWithSpace(refs)>>)
            joined_hyp == ApplyPipeline(hypothesis_transform, <<JoinWithSpace(hyps)>>)
        IN  /\ pc = "raised" =>
                  /\ error = "ValueError"
                  /\ HasEmptyString(refs) \/ HasEmptySentence(NormalizedReference)
            /\ Returned =>
                  /\ IsListOfListOfStrings(joined_ref, TRUE)
                  /\ ~LengthsDiffer(joined_ref, joined_hyp)
                  /\ Len(result.alignments) = 1
                  /\ SameAsTotals(result, CorpusTotals(joined_ref, joined_hyp))

\* the call of the test has returned: two reference sentences, four
\* hypothesis sentences, with hits and deletions
C16_Witness ==
    /\ Returned /\ ContiguousTransforms
    /\ Len(Wrapped(call.reference).val) = 2
    /\ Len(Wrapped(call.hypothesis).val) = 4
    /\ result.hits >= 1 /\ result.deletions >= 1

\* the injective id assignments tried for a vocabulary of n tokens: every
\* one when n <= 4, the reversed and the rotated one otherwise
Relabelings(n) ==
    IF n <= 4 THEN IndexPermutations(n)
    ELSE {[i \in 1..n |-> n + 1 - i], [i \in 1..n |-> (i % n) + 1]}

\* the id sequences of the sentences when the j-th token of vocab gets
\* the id sigma[j] - 1
TokenIds(sentences, vocab, sigma) ==
    [i \in 1..Len(sentences) |->
        [k \in 1..Len(sentences[i]) |->
            sigma[CHOOSE j \in 1..Len(vocab) : vocab[j] = sentences[i][k]] - 1]]

\* C17: the alignments and the counts of a returned result are those the
\* aligner gives under any other injective assignment of ids to the tokens
\* of the corpus.
C17_IdAssignmentIrrelevant ==
    Returned =>
        LET refs == result.references
            hyps == result.hypotheses
            vocab == AddWords(<<>>, Concat(refs) \o Concat(hyps))
        IN  \A sigma \in Relabelings(Len(vocab)) :
                LET r == TokenIds(refs, vocab, sigma)
                    h == TokenIds(hyps, vocab, sigma)
                    ops == [k \in 1..Len(refs) |-> LevenshteinOpcodes(r[k], h[k])]
                    T(tag) == SumSeq([k \in 1..Len(refs) |-> SentenceCount(ops[k], tag)])
                IN  /\ result.alignments
                          = [k \in 1..Len(refs) |-> SentenceChunks(ops[k])]
                    /\ result.hits = T("equal")
                    /\ result.substitutions = T("replace")
                    /\ result.deletions = T("delete")
                    /\ result.insertions = T("insert")

\* a returned result over three distinct tokens whose alignment has a hit
\* and an edit that is not part of a common prefix or suffix only
C17_Witness ==
    /\ Returned
    /\ Len(AddWords(<<>>, Concat(result.references) \o Concat(result.hypotheses))) = 3
    /\ result.hits >= 1 /\ result.substitutions >= 1
    /\ result.deletions + result.insertions >= 1

\* the vocabulary mapper has run
Mapped ==
    \/ pc \in {"align", "characters", "returned"}
    \/ pc = "raised" /\ error = "ZeroDivisionError"

\* the positions <<sentence, token>> of a list of sentences
Positions(sentences) ==
    UNION {{<<i, k>> : k \in 1..Len(sentences[i])} : i \in 1..Len(sentences)}

\* ids has the shape of sentences
SameShape(ids, sentences) ==
    /\ Len(ids) = Len(sentences)
    /\ \A i \in 1..Len(sentences) : Len(ids[i]) = Len(sentences[i])

\* the state part of C18: once the mapper has run, the id sequences have
\* the shape of the token lists, and over the reference and the hypothesis
\* together two positions hold the same id exactly when they hold the same
\* token; the ids are natural numbers
MapperInvariant ==
    Mapped =>
        LET words == ref_transformed \o hyp_transformed
            ids == ref_as_ints \o hyp_as_ints
        IN  /\ SameShape(ref_as_ints, ref_transformed)
            /\ SameShape(hyp_as_ints, hyp_transformed)
            /\ \A a \in Positions(words) : ids[a[1]][a[2]] \in Nat
            /\ \A a, b \in Positions(words) :
                  (ids[a[1]][a[2]] = ids[b[1]][b[2]])
                      <=> (words[a[1]][a[2]] = words[b[1]][b[2]])

\* C18: the vocabulary mapper, built over reference and hypothesis
\* together, gives equal tokens one id and distinct tokens distinct ids and
\* returns id sequences of the shape of its input; the mapping step always
\* completes and hands over to the alignment loop, whatever the number of
\* distinct tokens.
C18_VocabularyMapper ==
    /\ []MapperInvariant
    /\ [][pc = "word2int" => (pc' = "align" /\ error' = "none")]_vars

\* the mapper has run on a corpus of more than four distinct tokens, one
\* of them in both the reference and the hypothesis
C18_Witness ==
    /\ pc = "align"
    /\ Len(AddWords(<<>>, Concat(ref_transformed) \o Concat(hyp_transformed))) > 4
    /\ \E a \in Positions(ref_transformed), b \in Positions(hyp_transformed) :
          ref_transformed[a[1]][a[2]] = hyp_transformed[b[1]][b[2]]

\* D[i][j] of the Levenshtein matrix of a and b
Cell(D, i, j) == D[i + 1][j + 1]

\* the backtrace from D[i][j] to D[0][0] that takes, among the moves that
\* keep the cost, the diagonal first, then the insertion, then the deletion
RECURSIVE DiagonalInsertDelete(_, _, _, _, _)
DiagonalInsertDelete(D, a, b, i, j) ==
    IF i = 0 /\ j = 0 THEN <<>>
    ELSE IF i > 0 /\ j > 0 /\ a[i] = b[j] /\ Cell(D, i, j) = Cell(D, i - 1, j - 1)
         THEN DiagonalInsertDelete(D, a, b, i - 1, j - 1)
    ELSE IF i > 0 /\ j > 0 /\ a[i] # b[j] /\ Cell(D, i, j) = Cell(D, i - 1, j - 1) + 1
         THEN Append(DiagonalInsertDelete(D, a, b, i - 1, j - 1),
                     Editop("replace", i - 1, j - 1))
    ELSE IF j > 0 /\ Cell(D, i, j) = Cell(D, i, j - 1) + 1
         THEN Append(DiagonalInsertDelete(D, a, b, i, j - 1), Editop("insert", i, j - 1))
    ELSE Append(DiagonalInsertDelete(D, a, b, i - 1, j), Editop("delete", i - 1, j))

\* the alignment of a with b by the rule diagonal > insert > delete
DiagonalFirstAlignment(a, b) ==
    SentenceChunks(AsOpcodes(
        DiagonalInsertDelete(LevMatrix(a, b), a, b, Len(a), Len(b)),
        1, 0, 0, Len(a), Len(b)))

\* C19 (as claimed): every reported alignment is the one the backtrace
\* from D[n][m] to D[0][0] gives when, at every cost tie, it takes the
\* diagonal move over the insertion over the deletion.
C19_DiagonalFirstTieBreak ==
    \A k \in 1..Len(alignments) :
        alignments[k] = DiagonalFirstAlignment(ref_transformed[k], hyp_transformed[k])

\* the backtrace from D[i][j] to D[0][0] that takes, among the moves that
\* keep the cost, the deletion first, then the substitution, then the
\* insertion, then the equal diagonal move; positions are shifted by offset
RECURSIVE DeleteSubstituteInsertEqual(_, _, _, _, _, _)
DeleteSubstituteInsertEqual(D, a, b, i, j, offset) ==
    IF i = 0 /\ j = 0 THEN <<>>
    ELSE IF i > 0 /\ Cell(D, i, j) = Cell(D, i - 1, j) + 1
         THEN Append(DeleteSubstituteInsertEqual(D, a, b, i - 1, j, offset),
                     Editop("delete", i - 1 + offset, j + offset))
    ELSE IF i > 0 /\ j > 0 /\ a[i] # b[j] /\ Cell(D, i, j) = Cell(D, i - 1, j - 1) + 1
         THEN Append(DeleteSubstituteInsertEqual(D, a, b, i - 1, j - 1, offset),
                     Editop("replace", i - 1 + offset, j - 1 + offset))
    ELSE IF j > 0 /\ Cell(D, i, j) = Cell(D, i, j - 1) + 1
         THEN Append(DeleteSubstituteInsertEqual(D, a, b, i, j - 1, offset),
                     Editop("insert", i + offset, j - 1 + offset))
    ELSE DeleteSubstituteInsertEqual(D, a, b, i - 1, j - 1, offset)

\* the alignment of a with b: the common prefix and the common suffix of
\* what is left are equal, the middle is aligned by the rule
\* delete > substitute > insert > equal
DeleteFirstAlignment(a, b) ==
    LET p  == CommonPrefixLen(a, b)
        a1 == SubSeq(a, p + 1, Len(a))
        b1 == SubSeq(b, p + 1, Len(b))
        q  == CommonSuffixLen(a1, b1)
        a2 == SubSeq(a1, 1, Len(a1) - q)
        b2 == SubSeq(b1, 1, Len(b1) - q)
    IN  SentenceChunks(AsOpcodes(
            DeleteSubstituteInsertEqual(LevMatrix(a2, b2), a2, b2, Len(a2), Len(b2), p),
            1, 0, 0, Len(a), Len(b)))

\* C19 (amended): every reported alignment is the one obtained by matching
\* the common prefix and the common suffix as equal and backtracing the
\* rest from its last cell to D[0][0] choosing, at every cost tie, the
\* deletion over the substitution over the insertion over the equal move.
C19_TieBreakOrder ==
    \A k \in 1..Len(alignments) :
        alignments[k] = DeleteFirstAlignment(ref_transformed[k], hyp_transformed[k])

\* a returned alignment of four chunks or more for a pair with several
\* minimum-cost alignments, reported differently from the diagonal-first one
C19_Witness ==
    /\ Returned
    /\ \E k \in 1..Len(result.alignments) :
          /\ Len(result.alignments[k]) >= 4
          /\ result.alignments[k]
                # DiagonalFirstAlignment(result.references[k], result.hypotheses[k])

\* an alignment with insert and delete exchanged and, in every chunk, the
\* reference range exchanged with the hypothesis range
Swapped(al) ==
    [i \in 1..Len(al) |->
        Chunk(IF al[i].type = "insert" THEN "delete"
              ELSE IF al[i].type = "delete" THEN "insert" ELSE al[i].type,
              al[i].hyp_start_idx, al[i].hyp_end_idx,
              al[i].ref_start_idx, al[i].ref_end_idx)]

\* C20 (as claimed): the alignment reported for a reference A and a
\* hypothesis B is the alignment reported for reference B and hypothesis A
\* with insert and delete exchanged and the two ranges of every chunk
\* exchanged.
C20_SwapSymmetry ==
    \A k \in 1..Len(alignments) :
        alignments[k] = Swapped(PairAlignment(hyp_transformed[k], ref_transformed[k]))

\* every token is a single character
SingleCharacterTokens(sentences) ==
    \A a \in Positions(sentences) : Len(sentences[a[1]][a[2]]) = 1

\* the state part of C21: a character result holds single characters as
\* tokens, the alignments and the counts of the word-level computation on
\* them, and cer = (S+D+I)/(H+S+D)
CharacterResultInvariant ==
    (Returned /\ result.kind = "CharacterOutput") =>
        /\ SingleCharacterTokens(result.references)
        /\ SingleCharacterTokens(result.hypotheses)
        /\ result.references = NormalizedReference
        /\ result.hypotheses = NormalizedHypothesis
        /\ result.alignments =
              [k \in 1..Len(result.references) |->
                  PairAlignment(result.references[k], result.hypotheses[k])]
        /\ SameAsTotals(result, CorpusTotals(result.references, result.hypotheses))
        /\ FracEq(result.cer,
                  result.substitutions + result.deletions + result.insertions,
                  result.hits + result.substitutions + result.deletions)

\* C21: what process_characters returns is what its process_words run on
\* the same arguments returned: the same references, hypotheses,
\* alignments, hits, substitutions, insertions and deletions, and cer is
\* that run's wer = (S+D+I)/(H+S+D); the tokens are single characters.
C21_CharactersAsWords ==
    /\ []CharacterResultInvariant
    /\ [][pc = "characters" =>
            /\ result.kind = "WordOutput"
            /\ pc' = "returned"
            /\ result'.kind = "CharacterOutput"
            /\ result'.references = result.references
            /\ result'.hypotheses = result.hypotheses
            /\ result'.alignments = result.alignments
            /\ result'.hits = result.hits
            /\ result'.substitutions = result.substitutions
            /\ result'.insertions = result.insertions
            /\ result'.deletions = result.deletions
            /\ result'.cer = result.wer
            /\ FracEq(result'.cer,
                      result.substitutions + result.deletions + result.insertions,
                      result.hits + result.substitutions + result.deletions)]_vars

\* a character result with insertions whose cer differs from the mer of
\* the same run
C21_Witness ==
    /\ Returned /\ result.kind = "CharacterOutput"
    /\ result.insertions >= 1 /\ result.hits >= 1
    /\ result.cer.num > result.cer.den

\* the steps of process_words before the alignment loop: input validation,
\* the two transforms with their checks, the sentence-count comparison and
\* the vocabulary mapping
BeforeAlignment ==
    pc \in {"validate_input", "transform_ref", "transform_hyp",
            "check_lengths", "word2int"}

\* C22 (as claimed): every step that raises an error is a step of input
\* validation or vocabulary mapping, taken before the first sentence pair
\* is aligned, and leaves no result; no step of the alignment loop or after
\* it raises.
C22_ErrorsBeforeAlignment ==
    [][pc' = "raised" =>
          /\ BeforeAlignment
          /\ alignments = <<>>
          /\ result' = NoResult]_vars

\* the loop over the sentence pairs has ended: the measures are next
AtMeasures ==
    pc = "align" /\ idx > Min2(Len(ref_as_ints), Len(hyp_as_ints))

\* C23 (as claimed): whenever the computation of the measures is reached,
\* whatever transform outputs passed validation, H + S + D >= 1, and no
\* division of the measures divides by zero.
C23_ReferenceTokensPositive ==
    /\ AtMeasures => num_hits + num_substitutions + num_deletions >= 1
    /\ error # "ZeroDivisionError"

\* the arguments and the transforms of the call under way
SameCall(h) ==
    /\ h.call = call
    /\ h.reference_transform = reference_transform
    /\ h.hypothesis_transform = hypothesis_transform

\* the state part of C24: a call starts with no vocabulary, no counts and
\* no alignment from an earlier call, and ends as every earlier call with
\* the same arguments ended
FreshCallInvariant ==
    /\ pc = "validate_input" =>
          /\ ref_as_ints = <<>> /\ hyp_as_ints = <<>>
          /\ ref_transformed = <<>> /\ hyp_transformed = <<>>
          /\ num_hits = 0 /\ num_substitutions = 0 /\ num_deletions = 0
          /\ num_insertions = 0 /\ num_rf_words = 0 /\ num_hp_words = 0
          /\ alignments = <<>>
    /\ Terminated =>
          \A i \in 1..Len(history) :
              SameCall(history[i]) =>
                  history[i].result = result /\ history[i].error = error

\* C24: no step of a call changes the reference and hypothesis arguments
\* or the transforms, nothing of one call is kept for the next, and a call
\* ends as every earlier call with equal arguments ended, whatever calls
\* were made in between.
C24_NoStateBetweenCalls ==
    /\ []FreshCallInvariant
    /\ [][~Terminated =>
            /\ call' = call
            /\ reference_transform' = reference_transform
            /\ hypothesis_transform' = hypothesis_transform
            /\ history' = history]_vars

\* a third call has returned as the first did, with equal arguments, after
\* a different call in between
C24_Witness ==
    /\ Returned /\ Len(history) = 2
    /\ SameCall(history[1]) /\ ~SameCall(history[2])
    /\ history[1].result = result
    /\ result.hits >= 1 /\ result.deletions >= 1

\* no token of h occurs in r
NoCommonToken(r, h) ==
    \A i \in 1..Len(r) : \A j \in 1..Len(h) : r[i] # h[j]

\* C25: a pair whose hypothesis has m >= 1 tokens and whose reference has
\* n > m tokens, none of them a hypothesis token, is aligned as exactly two
\* chunks: substitute of ref[0,m) by hyp[0,m), then delete of ref[m,n).
C25_SubstituteThenDelete ==
    Returned =>
        \A k \in 1..Len(result.alignments) :
            LET r == result.references[k]
                h == result.hypotheses[k]
                m == Len(h)
                n == Len(r)
            IN  (m >= 1 /\ n > m /\ NoCommonToken(r, h)) =>
                    result.alignments[k] =
                        <<Chunk("substitute", 0, m, 0, m),
                          Chunk("delete", m, n, m, m)>>

\* a returned character result for three reference characters and one
\* other hypothesis character: substitute, delete, delete
C25_Witness ==
    /\ Returned /\ result.kind = "CharacterOutput"
    /\ Len(result.references[1]) = 3 /\ Len(result.hypotheses[1]) = 1
    /\ NoCommonToken(result.references[1], result.hypotheses[1])
    /\ result.alignments[1] = <<Chunk("substitute", 0, 1, 0, 1),
                                Chunk("delete", 1, 3, 1, 1)>>

\* the words of a sentence given as one string
Words(sentence) == ListOfWords(sentence)

\* C26: "short one here" against "shoe order one" is aligned as insert,
\* substitute, equal, delete with one hit, and together with "quite a bit
\* of longer sentence" against "quite bit of an even longest sentence
\* here" the corpus has 2 substitutions, 2 deletions, 4 insertions, 5 hits.
C26_DocumentedAlignment ==
    (Returned /\ DefaultTransforms /\ result.kind = "WordOutput") =>
        /\ \A k \in 1..Len(result.alignments) :
              (/\ result.references[k] = Words(ShortOneHere)
               /\ result.hypotheses[k] = Words(ShoeOrderOne)) =>
                  /\ result.alignments[k] =
                        <<Chunk("insert", 0, 0, 0, 1),
                          Chunk("substitute", 0, 1, 1, 2),
                          Chunk("equal", 1, 2, 2, 3),
                          Chunk("delete", 2, 3, 3, 3)>>
                  /\ TypeCount(result.alignments[k], "equal") = 1
        /\ (/\ result.references = <<Words(ShortOneHere), Words(QuiteLongerSentence)>>
            /\ result.hypotheses = <<Words(ShoeOrderOne), Words(QuiteLongestSentenceHere)>>) =>
              /\ result.substitutions = 2 /\ result.deletions = 2
              /\ result.insertions = 4 /\ result.hits = 5
              /\ result.alignments[2] =
                    <<Chunk("equal", 0, 1, 0, 1),
                      Chunk("delete", 1, 2, 1, 1),
                      Chunk("equal", 2, 4, 1, 3),
                      Chunk("insert", 4, 4, 3, 5),
                      Chunk("substitute", 4, 5, 5, 6),
                      Chunk("equal", 5, 6, 6, 7),
                      Chunk("insert", 6, 6, 7, 8)>>

\* the two documented sentence pairs have been processed in one call
C26_Witness ==
    /\ Returned /\ DefaultTransforms /\ result.kind = "WordOutput"
    /\ result.references = <<Words(ShortOneHere), Words(QuiteLongerSentence)>>
    /\ result.hypotheses = <<Words(ShoeOrderOne), Words(QuiteLongestSentenceHere)>>
    /\ result.alignments[1][1].type = "insert"
    /\ result.hits = 5

\* the chunks built so far are the opcodes of their pairs, each with one of
\* the four type names, "substitute" where the aligner says "replace"
ChunkTypesInvariant ==
    \A k \in 1..Len(alignments) :
        LET opcodes == LevenshteinOpcodes(ref_as_ints[k], hyp_as_ints[k])
        IN  /\ Len(alignments[k]) = Len(opcodes)
            /\ \A j \in 1..Len(opcodes) :
                  /\ opcodes[j].tag \in {"equal", "replace", "insert", "delete"}
                  /\ alignments[k][j].type \in
                         {"equal", "substitute", "insert", "delete"}
                  /\ alignments[k][j].type = "substitute"
                         <=> opcodes[j].tag = "replace"
                  /\ alignments[k][j].type # "substitute"
                         => alignments[k][j].type = opcodes[j].tag
                  /\ alignments[k][j].ref_start_idx <= alignments[k][j].ref_end_idx
                  /\ alignments[k][j].hyp_start_idx <= alignments[k][j].hyp_end_idx

\* C27: building a chunk in the loop never raises, every chunk has one of
\* the types equal, substitute, insert, delete, and a "replace" of the
\* aligner is always stored as "substitute".
C27_ChunkTypes ==
    /\ []ChunkTypesInvariant
    /\ [](Returned => result.alignments = alignments)
    /\ [][pc = "align" => error' # "ValueError"]_vars

\* a result with a substitute chunk next to chunks of the other three types
C27_Witness ==
    /\ Returned
    /\ \A t \in {"equal", "substitute", "insert", "delete"} :
          \E k \in 1..Len(result.alignments) :
              \E j \in 1..Len(result.alignments[k]) :
                  result.alignments[k][j].type = t

\* the counts of a returned result add up to the token counts of its
\* normalized sentences, and the denominator of the error rate is the
\* reference token count
CountsAreTokenCounts ==
    LET H == result.hits
        S == result.substitutions
        D == result.deletions
        I == result.insertions
        rate == IF result.kind = "WordOutput" THEN result.wer ELSE result.cer
    IN  /\ H + S + D = TotalLen(result.references)
        /\ H + S + I = TotalLen(result.hypotheses)
        /\ TotalLen(result.references) >= 1
        /\ FracEq(rate, S + D + I, TotalLen(result.references))

\* C28 as stated: in every returned result H+S+D is the reference token
\* count and H+S+I the hypothesis token count, so the denominator of wer is
\* the reference token count and wip is H*H / ((H+S+D)*(H+S+I)).
C28_CountsAndWip ==
    Returned =>
        /\ CountsAreTokenCounts
        /\ result.kind = "WordOutput" =>
              LET H == result.hits
                  S == result.substitutions
                  D == result.deletions
                  I == result.insertions
              IN  /\ (H + S + D) * (H + S + I) # 0
                  /\ FracEq(result.wip, H * H, (H + S + D) * (H + S + I))

\* C28, amended: as above, with wip equal to H*H / ((H+S+D)*(H+S+I)) when
\* there is at least one hypothesis token and equal to 0 when there is none.
C28_CountsAndGuardedWip ==
    Returned =>
        /\ CountsAreTokenCounts
        /\ result.kind = "WordOutput" =>
              LET H == result.hits
                  S == result.substitutions
                  D == result.deletions
                  I == result.insertions
              IN  IF H + S + I >= 1
                  THEN /\ (H + S + D) * (H + S + I) # 0
                       /\ FracEq(result.wip, H * H, (H + S + D) * (H + S + I))
                  ELSE /\ H = 0 /\ S = 0 /\ I = 0 /\ D >= 1
                       /\ FracEq(result.wip, 0, 1)

\* a returned word result with hits, deletions and insertions, and with
\* different token counts on the two sides
C28_Witness ==
    /\ Returned /\ result.kind = "WordOutput"
    /\ result.hits >= 1 /\ result.deletions >= 1 /\ result.insertions >= 1
    /\ TotalLen(result.references) # TotalLen(result.hypotheses)

\* the reference argument is the empty string or a list that holds it
RawReferenceHasEmptyString ==
    IF call.reference.isStr
    THEN call.reference.val = <<>>
    ELSE \E i \in DOMAIN call.reference.val : call.reference.val[i] = <<>>

C30_ZeroErrorRate ==
    Returned =>
        LET rate == IF result.kind = "WordOutput" THEN result.wer ELSE result.cer
            no_edits == /\ result.substitutions = 0 /\ result.deletions = 0
                        /\ result.insertions = 0
        IN  /\ rate.den # 0
            /\ rate.num = 0 <=> no_edits
            /\ no_edits <=> result.hypotheses = result.references

\* a result with error rate 0 for two different sentences, each equal to
\* its reference
C30_Witness ==
    /\ Returned /\ result.kind = "WordOutput"
    /\ FracEq(result.wer, 0, 1)
    /\ Len(result.references) = 2
    /\ result.references[1] # result.references[2]
    /\ result.hypotheses = result.references
    /\ result.hits >= 3

=============================================================================
